---- MODULE Spec2Model ----
(***************************************************************************)
(* BaseSiteMapGenerator (core/frontend/services/sitemap/base-generator.js) *)
(*                                                                         *)
(* One generator instance: two JavaScript objects keyed by record id       *)
(* (nodeLookup, nodeTimeLookup), the cached document (siteMapContent), the *)
(* collection's lastModified stamp and the maxNodes cap.  The operations   *)
(* are addUrl, removeUrl, getXml and reset; all are synchronous.           *)
(*                                                                         *)
(* Modelling conventions                                                   *)
(*  - An instant is a natural number.  A timestamp field that is missing   *)
(*    (undefined, null) is 0, which is falsy as in JavaScript.             *)
(*  - `now` is the latest reading of Date.now().  Every call of Date.now() *)
(*    returns some instant >= now (time passes between and inside calls)   *)
(*    and becomes the new `now`.                                           *)
(*  - A JavaScript object is the sequence of its own properties in         *)
(*    enumeration order, each a record [key, value].  Record ids are       *)
(*    ObjectId strings, never canonical array indices, so the enumeration  *)
(*    order is the insertion order: assigning an existing key keeps its    *)
(*    place, assigning a new key appends, delete removes.                  *)
(*  - null is the empty sequence Null; a present value v is <<v>>.         *)
(*  - The document is the sequence of url nodes below the urlset root, in  *)
(*    the order they are serialized (field xml).  Field src lists, for     *)
(*    each url element, the id of the property it was rendered from; it is *)
(*    not part of the XML text and is used only to state properties.       *)
(***************************************************************************)
EXTENDS Integers, Sequences, FiniteSets

\* ---------------------------------------------------------------- bounds
MaxTime == 3     \* instants 1..MaxTime (record timestamps and clock readings)
MaxNodes == 2    \* the value the constructor gives maxNodes (50000 in the source)

Ids == {"id1", "id2", "id3"}
\* The URL the url service reports for each record.
UrlOf(id) == CASE id = "id1" -> "/a/" [] id = "id2" -> "/b/" [] OTHER -> "/c/"

Null == <<>>
Some(v) == <<v>>

NoImage == ""      \* a missing image field (falsy)

\* The records handed to addUrl and removeUrl.
Datums ==
    [id : Ids,
     updated_at : 0..MaxTime,
     published_at : {0},
     created_at : {0},
     cover_image : {NoImage},
     profile_image : {NoImage},
     feature_image : {NoImage}]

\* Records of two ids that differ in their image fields: a reference that
\* resolves, one that does not, or none.
ImageDatums ==
    [id : {"id1", "id2"},
     updated_at : {1},
     published_at : {0},
     created_at : {0},
     cover_image : {NoImage, "c.png", "?"},
     profile_image : {NoImage, "p.png", "?"},
     feature_image : {NoImage, "f.png"}]

\* Records of two ids that differ in which timestamp fields they carry.
TimeDatums ==
    [id : {"id1", "id2"},
     updated_at : {0, 1},
     published_at : {0, 2},
     created_at : {0, MaxTime},
     cover_image : {NoImage},
     profile_image : {NoImage},
     feature_image : {NoImage}]

\* removeUrl reads nothing of its record but the id.
Removals == {d \in Datums : d.updated_at = 0}

Max(a, b) == IF a >= b THEN a ELSE b
Min(a, b) == IF a <= b THEN a ELSE b

\* --------------------------------------------------- JavaScript objects
Keys(obj) == {obj[i].key : i \in 1..Len(obj)}

HasKey(obj, k) == k \in Keys(obj)

IndexOf(obj, k) == CHOOSE i \in 1..Len(obj) : obj[i].key = k

\* obj[k]; undefined is reported as 0 by the only reader that can see it.
Get(obj, k) == obj[IndexOf(obj, k)].value

\* obj[k] = v
Put(obj, k, v) ==
    IF HasKey(obj, k)
    THEN [obj EXCEPT ![IndexOf(obj, k)] = [key |-> k, value |-> v]]
    ELSE Append(obj, [key |-> k, value |-> v])

\* delete obj[k]
Delete(obj, k) == SelectSeq(obj, LAMBDA p : p.key # k)

\* ------------------------------------------------------- collaborators
\* urlUtils.urlFor('image', {image: image}, true): the absolute URL of an image
\* reference, as directory and file name; the empty string when unresolvable.
EmptyUrl == [dir |-> "", base |-> ""]

Unresolvable == {"?"}

urlFor(image) ==
    IF image \in Unresolvable
    THEN EmptyUrl
    ELSE [dir |-> "https://site/content/images/", base |-> image]

\* path.basename(imageUrl)
basename(imageUrl) == imageUrl.base

\* urlUtils.transformReadyToAbsolute applied to the serialized urlset: every
\* location that is a site-relative path comes out prefixed with the site URL.
transformReadyToAbsolute(nodes) ==
    [i \in 1..Len(nodes) |->
        [nodes[i] EXCEPT !.loc = [site |-> "https://site", path |-> nodes[i].loc]]]

\* ------------------------------------------------------- node synthesis
\* getLastModifiedForDatum that looks at created_at first
getLastModifiedCreatedFirst(datum, clock) ==
    IF datum.created_at # 0 THEN datum.created_at
    ELSE IF datum.updated_at # 0 THEN datum.updated_at
    ELSE IF datum.published_at # 0 THEN datum.published_at
    ELSE clock

\* `clock` is what Date.now() returns if this call reaches it.
getLastModifiedForDatum(datum, clock) ==
    IF datum.updated_at # 0 \/ datum.published_at # 0 \/ datum.created_at # 0
    THEN IF datum.updated_at # 0 THEN datum.updated_at
         ELSE IF datum.published_at # 0 THEN datum.published_at
         ELSE datum.created_at
    ELSE clock

\* whether getLastModifiedForDatum(datum) reads the clock
ReadsClock(datum) ==
    datum.updated_at = 0 /\ datum.published_at = 0 /\ datum.created_at = 0

\* validateImageUrl that accepts every result of urlFor
validateImageUrlAlways(imageUrl) == TRUE

validateImageUrl(imageUrl) == imageUrl # EmptyUrl

\* Null when the function returns undefined
createImageNodeFromDatum(datum) ==
    LET image == IF datum.cover_image # NoImage THEN datum.cover_image
                 ELSE IF datum.profile_image # NoImage THEN datum.profile_image
                 ELSE datum.feature_image
        imageUrl == urlFor(image)
    IN  IF image = NoImage THEN Null
        ELSE IF ~validateImageUrl(imageUrl) THEN Null
        ELSE Some([image_loc |-> imageUrl, image_caption |-> basename(imageUrl)])

createUrlNodeFromDatum(url, datum, clock) ==
    [loc |-> url,
     lastmod |-> getLastModifiedForDatum(datum, clock),
     image |-> createImageNodeFromDatum(datum)]

\* updateLastModified without the comparison of line 94
updateLastModifiedAlways(lm, datum, clock) ==
    getLastModifiedForDatum(datum, clock)

\* the new value of this.lastModified
updateLastModified(lm, datum, clock) ==
    LET modified == getLastModifiedForDatum(datum, clock)
    IN  IF modified > lm THEN modified ELSE lm

\* updateLookups that writes only for an id it does not hold yet
updateLookupsIfAbsent(nl, ntl, datum, node, clock) ==
    IF HasKey(nl, datum.id)
    THEN [nodeLookup |-> nl, nodeTimeLookup |-> ntl]
    ELSE [nodeLookup |-> Put(nl, datum.id, node),
          nodeTimeLookup |-> Put(ntl, datum.id, getLastModifiedForDatum(datum, clock))]

\* updateLookups that keeps the instant of an id it holds already
updateLookupsKeepsInstant(nl, ntl, datum, node, clock) ==
    [nodeLookup |-> Put(nl, datum.id, node),
     nodeTimeLookup |-> IF HasKey(ntl, datum.id)
                        THEN ntl
                        ELSE Put(ntl, datum.id, getLastModifiedForDatum(datum, clock))]

\* the new values of the two lookups
updateLookups(nl, ntl, datum, node, clock) ==
    [nodeLookup |-> Put(nl, datum.id, node),
     nodeTimeLookup |-> Put(ntl, datum.id, getLastModifiedForDatum(datum, clock))]

\* removeFromLookups without line 176: the node stays
removeFromTimeLookupOnly(nl, ntl, datum) ==
    [nodeLookup |-> nl,
     nodeTimeLookup |-> Delete(ntl, datum.id)]

\* removeFromLookups that empties both lookups
removeFromLookupsClears(nl, ntl, datum) ==
    [nodeLookup |-> <<>>,
     nodeTimeLookup |-> <<>>]

removeFromLookups(nl, ntl, datum) ==
    [nodeLookup |-> Delete(nl, datum.id),
     nodeTimeLookup |-> Delete(ntl, datum.id)]

\* ------------------------------------------------------------ rendering
\* _.sortBy(list, 'ts'): stable, ascending
RECURSIVE InsertByTs(_, _)
InsertByTs(sorted, x) ==
    IF sorted = <<>> THEN <<x>>
    ELSE IF sorted[Len(sorted)].ts <= x.ts THEN Append(sorted, x)
    ELSE Append(InsertByTs(SubSeq(sorted, 1, Len(sorted) - 1), x), sorted[Len(sorted)])

RECURSIVE sortBy(_)
sortBy(list) ==
    IF list = <<>> THEN <<>>
    ELSE InsertByTs(sortBy(SubSeq(list, 1, Len(list) - 1)), list[Len(list)])

\* nodesToProcess without the slice of lines 36-38
nodesToProcessUnlimited(nl, ntl, mx) ==
    sortBy([i \in 1..Len(nl) |->
               [id |-> nl[i].key,
                ts |-> -(IF HasKey(ntl, nl[i].key) THEN Get(ntl, nl[i].key) ELSE 0),
                node |-> nl[i].value]])

\* nodesToProcess with the sort of line 41 ahead of the slice of lines 36-38
nodesToProcessSortFirst(nl, ntl, mx) ==
    LET sorted == sortBy([i \in 1..Len(nl) |->
                            [id |-> nl[i].key,
                             ts |-> -(IF HasKey(ntl, nl[i].key) THEN Get(ntl, nl[i].key) ELSE 0),
                             node |-> nl[i].value]])
    IN  IF mx # 0 THEN SubSeq(sorted, 1, Min(mx, Len(sorted))) ELSE sorted

\* nodesToProcess without the sort of line 41
nodesToProcessUnsorted(nl, ntl, mx) ==
    LET mapped == [i \in 1..Len(nl) |->
                      [id |-> nl[i].key,
                       ts |-> -(IF HasKey(ntl, nl[i].key) THEN Get(ntl, nl[i].key) ELSE 0),
                       node |-> nl[i].value]]
    IN  IF mx # 0 THEN SubSeq(mapped, 1, Min(mx, Len(mapped))) ELSE mapped

\* nodesToProcess as it stands after the sort (line 41)
nodesToProcess(nl, ntl, mx) ==
    LET mapped == [i \in 1..Len(nl) |->
                      [id |-> nl[i].key,
                       ts |-> -(IF HasKey(ntl, nl[i].key) THEN Get(ntl, nl[i].key) ELSE 0),
                       node |-> nl[i].value]]
        limited == IF mx # 0 THEN SubSeq(mapped, 1, Min(mx, Len(mapped))) ELSE mapped
    IN  sortBy(limited)

generateXmlFromNodes(nl, ntl, mx) ==
    LET sorted == nodesToProcess(nl, ntl, mx)
        nodes == [i \in 1..Len(sorted) |-> sorted[i].node]
    IN  [xml |-> transformReadyToAbsolute(nodes),
         src |-> [i \in 1..Len(sorted) |-> sorted[i].id]]

\* ---------------------------------------------------------------- state
VARIABLES
    nodeLookup,       \* this.nodeLookup: id -> url node
    nodeTimeLookup,   \* this.nodeTimeLookup: id -> instant
    siteMapContent,   \* this.siteMapContent: Null or Some(document)
    lastModified,     \* this.lastModified
    maxNodes,         \* this.maxNodes
    now,              \* latest reading of Date.now()
    \* history, written but never read by the operations
    lastCall,         \* the latest call: its name, whether its record's id was indexed,
                      \* whether it ran generateXmlFromNodes, whether it added an id
                      \* that had been removed
    ret,              \* Some(document) returned by the latest call if it was getXml
    renders,          \* runs of generateXmlFromNodes since the latest mutation
    maxAdded,         \* greatest last-modified instant addUrl has derived so far
    maxStored,        \* greatest instant addUrl has stored in nodeTimeLookup so far
    sinceRemoval,     \* instant of the latest removeUrl, raised by every later addUrl
    removed,          \* ids removed and not added again since
    discarded,        \* those of them whose url element was in the cached document
                      \* that their removeUrl threw away
    cleared,          \* "no" once addUrl has run after the latest reset (or there was
                      \* none); else "cached" if that reset threw away a cached
                      \* document with url elements, "yes" if not
    lastArgs          \* Some([datum, at]) after addUrl(url, datum) called at clock
                      \* reading `at`; kept only by the specifications over whole
                      \* records, Null elsewhere

vars == <<nodeLookup, nodeTimeLookup, siteMapContent, lastModified, maxNodes, now,
          lastCall, ret, renders, maxAdded, maxStored, sinceRemoval, removed, discarded,
          cleared, lastArgs>>

\* `again` is set by addUrl for an id that was removed and not added since
Call(op, had, rendered) ==
    [op |-> op, had |-> had, rendered |-> rendered, again |-> FALSE]

\* the ids of the url elements of a cached or returned document (none if Null)
Listed(content) ==
    IF content = Null THEN {} ELSE {content[1].src[i] : i \in 1..Len(content[1].src)}

\* constructor (lines 16-22)
Init ==
    /\ nodeLookup = <<>>
    /\ nodeTimeLookup = <<>>
    /\ siteMapContent = Null
    /\ lastModified = 0
    /\ maxNodes = MaxNodes
    /\ now = 1
    /\ lastCall = Call("new", FALSE, FALSE)
    /\ ret = Null
    /\ renders = 0
    /\ maxAdded = 0
    /\ maxStored = 0
    /\ sinceRemoval = 0
    /\ removed = {}
    /\ discarded = {}
    /\ cleared = "no"
    /\ lastArgs = Null

\* What addUrl(url, datum) assigns.  getLastModifiedForDatum runs three times
\* (lines 106, 92 and 172); for a record without timestamp fields each run reads
\* the clock, at t1 <= t2 <= t3.  The node is an object, so `if (node)` passes.
addUrlEffect(nl, ntl, lm, url, datum, t1, t2, t3) ==
    LET node == createUrlNodeFromDatum(url, datum, t1)
        lookups == updateLookups(nl, ntl, datum, node, t3)
    IN  [lastModified |-> updateLastModified(lm, datum, t2),
         nodeLookup |-> lookups.nodeLookup,
         nodeTimeLookup |-> lookups.nodeTimeLookup,
         siteMapContent |-> Null]

\* What a fresh generator holds after addUrl for each record of datums in turn,
\* the clock standing at clock throughout.
RECURSIVE addUrls(_, _)
addUrls(datums, clock) ==
    IF datums = <<>>
    THEN [lastModified |-> 0, nodeLookup |-> <<>>, nodeTimeLookup |-> <<>>,
          siteMapContent |-> Null]
    ELSE LET before == addUrls(SubSeq(datums, 1, Len(datums) - 1), clock)
             datum == datums[Len(datums)]
         IN  addUrlEffect(before.nodeLookup, before.nodeTimeLookup, before.lastModified,
                          UrlOf(datum.id), datum, clock, clock, clock)

\* the clock readings addUrl can make from the current state
Readings(datum) ==
    IF ReadsClock(datum)
    THEN {r \in (now..MaxTime) \X (now..MaxTime) \X (now..MaxTime) :
              r[1] <= r[2] /\ r[2] <= r[3]}
    ELSE {<<now, now, now>>}

addUrl(url, datum) ==
    \E r \in Readings(datum) :
        LET effect == addUrlEffect(nodeLookup, nodeTimeLookup, lastModified,
                                   url, datum, r[1], r[2], r[3])
        IN  /\ lastModified' = effect.lastModified
            /\ nodeLookup' = effect.nodeLookup
            /\ nodeTimeLookup' = effect.nodeTimeLookup
            /\ siteMapContent' = effect.siteMapContent
            /\ now' = r[3]
            /\ maxAdded' = Max(maxAdded, getLastModifiedForDatum(datum, r[2]))
            /\ maxStored' = Max(maxStored, Get(effect.nodeTimeLookup, datum.id))
            /\ sinceRemoval' = Max(sinceRemoval, getLastModifiedForDatum(datum, r[2]))
            /\ lastCall' = [Call("addUrl", HasKey(nodeLookup, datum.id), FALSE)
                                EXCEPT !.again = datum.id \in removed]
            /\ ret' = Null
            /\ renders' = 0
            /\ removed' = removed \ {datum.id}
            /\ discarded' = discarded \ {datum.id}
            /\ cleared' = "no"
            /\ UNCHANGED maxNodes

\* removeUrl without line 77: the cached document survives
removeUrlKeepsContent(url, datum) ==
    \E t \in now..MaxTime :
        /\ LET lookups == removeFromLookups(nodeLookup, nodeTimeLookup, datum)
           IN  /\ nodeLookup' = lookups.nodeLookup
               /\ nodeTimeLookup' = lookups.nodeTimeLookup
        /\ lastModified' = t
        /\ now' = t
        /\ sinceRemoval' = t
        /\ lastCall' = Call("removeUrl", HasKey(nodeLookup, datum.id), FALSE)
        /\ ret' = Null
        /\ renders' = 0
        /\ removed' = removed \cup {datum.id}
        /\ discarded' = IF datum.id \in Listed(siteMapContent)
                        THEN discarded \cup {datum.id}
                        ELSE discarded \ {datum.id}
        /\ UNCHANGED <<siteMapContent, maxNodes, maxAdded, maxStored, cleared>>

\* removeUrl whose reading of the clock never reaches this.lastModified
removeUrlNoStamp(url, datum) ==
    \E t \in now..MaxTime :
        /\ LET lookups == removeFromLookups(nodeLookup, nodeTimeLookup, datum)
           IN  /\ nodeLookup' = lookups.nodeLookup
               /\ nodeTimeLookup' = lookups.nodeTimeLookup
        /\ siteMapContent' = Null
        /\ now' = t
        /\ sinceRemoval' = t
        /\ lastCall' = Call("removeUrl", HasKey(nodeLookup, datum.id), FALSE)
        /\ ret' = Null
        /\ renders' = 0
        /\ removed' = removed \cup {datum.id}
        /\ discarded' = IF datum.id \in Listed(siteMapContent)
                        THEN discarded \cup {datum.id}
                        ELSE discarded \ {datum.id}
        /\ UNCHANGED <<lastModified, maxNodes, maxAdded, maxStored, cleared>>

\* removeUrl that keeps the cached document when the id is not indexed
removeUrlKeepsContentIfAbsent(url, datum) ==
    \E t \in now..MaxTime :
        /\ LET lookups == removeFromLookups(nodeLookup, nodeTimeLookup, datum)
           IN  /\ nodeLookup' = lookups.nodeLookup
               /\ nodeTimeLookup' = lookups.nodeTimeLookup
        /\ siteMapContent' = IF HasKey(nodeLookup, datum.id) THEN Null ELSE siteMapContent
        /\ lastModified' = t
        /\ now' = t
        /\ sinceRemoval' = t
        /\ lastCall' = Call("removeUrl", HasKey(nodeLookup, datum.id), FALSE)
        /\ ret' = Null
        /\ renders' = IF HasKey(nodeLookup, datum.id) THEN 0 ELSE renders
        /\ removed' = removed \cup {datum.id}
        /\ discarded' = IF datum.id \in Listed(siteMapContent)
                        THEN discarded \cup {datum.id}
                        ELSE discarded \ {datum.id}
        /\ UNCHANGED <<maxNodes, maxAdded, maxStored, cleared>>

\* removeUrl(url, datum); t is the reading of Date.now() on line 78
removeUrl(url, datum) ==
    \E t \in now..MaxTime :
        /\ LET lookups == removeFromLookups(nodeLookup, nodeTimeLookup, datum)
           IN  /\ nodeLookup' = lookups.nodeLookup
               /\ nodeTimeLookup' = lookups.nodeTimeLookup
        /\ siteMapContent' = Null
        /\ lastModified' = t
        /\ now' = t
        /\ sinceRemoval' = t
        /\ lastCall' = Call("removeUrl", HasKey(nodeLookup, datum.id), FALSE)
        /\ ret' = Null
        /\ renders' = 0
        /\ removed' = removed \cup {datum.id}
        /\ discarded' = IF datum.id \in Listed(siteMapContent)
                        THEN discarded \cup {datum.id}
                        ELSE discarded \ {datum.id}
        /\ UNCHANGED <<maxNodes, maxAdded, maxStored, cleared>>

\* getXml without the test of line 155: every call generates
getXmlAlwaysGenerates ==
    LET content == generateXmlFromNodes(nodeLookup, nodeTimeLookup, maxNodes)
    IN  /\ siteMapContent' = Some(content)
        /\ ret' = Some(content)
        /\ renders' = Min(renders + 1, 2)
        /\ lastCall' = Call("getXml", FALSE, TRUE)
        /\ UNCHANGED <<nodeLookup, nodeTimeLookup, lastModified, maxNodes, now,
                       maxAdded, maxStored, sinceRemoval, removed, discarded,
                            cleared>>

\* getXml without line 160: the generated document is returned, not kept
getXmlForgetsContent ==
    IF siteMapContent # Null
    THEN /\ ret' = siteMapContent
         /\ lastCall' = Call("getXml", FALSE, FALSE)
         /\ UNCHANGED <<nodeLookup, nodeTimeLookup, siteMapContent, lastModified,
                        maxNodes, now, renders, maxAdded, maxStored, sinceRemoval,
                        removed, discarded, cleared>>
    ELSE LET content == generateXmlFromNodes(nodeLookup, nodeTimeLookup, maxNodes)
         IN  /\ ret' = Some(content)
             /\ renders' = Min(renders + 1, 2)
             /\ lastCall' = Call("getXml", FALSE, TRUE)
             /\ UNCHANGED <<nodeLookup, nodeTimeLookup, siteMapContent, lastModified,
                            maxNodes, now, maxAdded, maxStored, sinceRemoval, removed,
                            discarded, cleared>>

\* getXml()
getXml ==
    IF siteMapContent # Null
    THEN /\ ret' = siteMapContent
         /\ lastCall' = Call("getXml", FALSE, FALSE)
         /\ UNCHANGED <<nodeLookup, nodeTimeLookup, siteMapContent, lastModified,
                        maxNodes, now, renders, maxAdded, maxStored, sinceRemoval,
                        removed, discarded, cleared>>
    ELSE LET content == generateXmlFromNodes(nodeLookup, nodeTimeLookup, maxNodes)
         IN  /\ siteMapContent' = Some(content)
             /\ ret' = Some(content)
             /\ renders' = Min(renders + 1, 2)
             /\ lastCall' = Call("getXml", FALSE, TRUE)
             /\ UNCHANGED <<nodeLookup, nodeTimeLookup, lastModified, maxNodes, now,
                            maxAdded, maxStored, sinceRemoval, removed, discarded,
                            cleared>>

\* reset without line 183: the cached document survives
resetKeepsContent ==
    /\ nodeLookup' = <<>>
    /\ nodeTimeLookup' = <<>>
    /\ lastCall' = Call("reset", FALSE, FALSE)
    /\ ret' = Null
    /\ renders' = 0
    /\ cleared' = IF Listed(siteMapContent) # {} THEN "cached" ELSE "yes"
    /\ UNCHANGED <<siteMapContent, lastModified, maxNodes, now, maxAdded, maxStored,
                   sinceRemoval, removed, discarded>>

\* reset that also puts this.lastModified back to its initial 0
resetZeroesLastModified ==
    /\ nodeLookup' = <<>>
    /\ nodeTimeLookup' = <<>>
    /\ siteMapContent' = Null
    /\ lastModified' = 0
    /\ lastCall' = Call("reset", FALSE, FALSE)
    /\ ret' = Null
    /\ renders' = 0
    /\ cleared' = IF Listed(siteMapContent) # {} THEN "cached" ELSE "yes"
    /\ UNCHANGED <<maxNodes, now, maxAdded, maxStored, sinceRemoval, removed, discarded>>

\* reset()
reset ==
    /\ nodeLookup' = <<>>
    /\ nodeTimeLookup' = <<>>
    /\ siteMapContent' = Null
    /\ lastCall' = Call("reset", FALSE, FALSE)
    /\ ret' = Null
    /\ renders' = 0
    /\ cleared' = IF Listed(siteMapContent) # {} THEN "cached" ELSE "yes"
    /\ UNCHANGED <<lastModified, maxNodes, now, maxAdded, maxStored, sinceRemoval,
                   removed, discarded>>

Next ==
    \/ \E datum \in Datums : addUrl(UrlOf(datum.id), datum) /\ UNCHANGED lastArgs
    \/ \E datum \in Removals : removeUrl(UrlOf(datum.id), datum) /\ UNCHANGED lastArgs
    \/ getXml /\ UNCHANGED lastArgs
    \/ reset /\ UNCHANGED lastArgs

Spec == Init /\ [][Next]_vars

\* The same operations, on records that differ in their image fields and in
\* their timestamp fields; addUrl's record and the clock as the call found it
\* are kept in lastArgs.
addUrlLogged(url, datum) ==
    /\ addUrl(url, datum)
    /\ lastArgs' = Some([datum |-> datum, at |-> now])

TwoRemovals == {d \in Removals : d.id \in {"id1", "id2"}}

NextImages ==
    \/ \E datum \in ImageDatums : addUrlLogged(UrlOf(datum.id), datum)
    \/ \E datum \in TwoRemovals : removeUrl(UrlOf(datum.id), datum) /\ lastArgs' = Null
    \/ getXml /\ lastArgs' = Null
    \/ reset /\ lastArgs' = Null

SpecImages == Init /\ [][NextImages]_vars

NextTimes ==
    \/ \E datum \in TimeDatums : addUrlLogged(UrlOf(datum.id), datum)
    \/ \E datum \in TwoRemovals : removeUrl(UrlOf(datum.id), datum) /\ lastArgs' = Null
    \/ getXml /\ lastArgs' = Null
    \/ reset /\ lastArgs' = Null

SpecTimes == Init /\ [][NextTimes]_vars

\* ------------------------------------------------------------ properties
Indexed == Keys(nodeLookup)

\* the url elements of the document the latest getXml returned
Returned == ret[1].xml

Current == generateXmlFromNodes(nodeLookup, nodeTimeLookup, maxNodes)

\* C1: whenever siteMapContent holds a document, it is the document
\* generateXmlFromNodes produces from the current nodeLookup and nodeTimeLookup,
\* and what getXml has just returned is that document.
CachedDocumentIsCurrent ==
    /\ siteMapContent # Null => siteMapContent = Some(Current)
    /\ lastCall.op = "getXml" => ret = Some(Current)

\* C1 witness: a document is cached and returned for an index of two records
\* that has seen a removal.
CachedAfterMutations ==
    /\ lastCall.op = "getXml"
    /\ siteMapContent # Null
    /\ Len(nodeLookup) >= 2
    /\ removed # {}

\* C2: nodeLookup and nodeTimeLookup have the same key set.
LookupKeysAgree == Keys(nodeLookup) = Keys(nodeTimeLookup)

\* C2 witness: removeUrl has just deleted an indexed id and another id remains.
RemovedOneOfSeveral ==
    /\ lastCall.op = "removeUrl"
    /\ lastCall.had
    /\ Len(nodeLookup) >= 1

\* C3: a getXml call that directly follows a getXml call returns the same
\* document as that one, leaves the cached document alone and does not run
\* generateXmlFromNodes.
RepeatedGetXmlReturnsCached ==
    [][(lastCall.op = "getXml" /\ lastCall'.op = "getXml")
         => /\ ret' = ret
            /\ siteMapContent' = siteMapContent
            /\ ~lastCall'.rendered]_vars

\* C3 witness: getXml has answered from the cache with a document of two url
\* elements.
AnsweredFromCache ==
    /\ lastCall.op = "getXml"
    /\ ~lastCall.rendered
    /\ Len(Returned) >= 2

\* C4: the document getXml returns has no url element for an id that was
\* removed and not added again.
RemovedIdNotListed ==
    lastCall.op = "getXml" => Listed(ret) \cap removed = {}

\* C4 witness: getXml returns a non-empty document after a removeUrl that threw
\* away a cached document listing the removed id.
RegeneratedAfterRemoval ==
    /\ lastCall.op = "getXml"
    /\ discarded # {}
    /\ Listed(ret) # {}

\* the indexed records have pairwise distinct instants, both as lastmod of
\* their nodes and as stored in nodeTimeLookup
DistinctInstants ==
    \A i, j \in 1..Len(nodeLookup) :
        i # j => /\ nodeLookup[i].value.lastmod # nodeLookup[j].value.lastmod
                 /\ Get(nodeTimeLookup, nodeLookup[i].key)
                        # Get(nodeTimeLookup, nodeLookup[j].key)

\* C5: when the indexed records have pairwise distinct last-modified
\* instants, the lastmod values of consecutive url elements of the returned
\* document strictly decrease.
LastmodStrictlyDescending ==
    (lastCall.op = "getXml" /\ DistinctInstants)
        => \A i \in 1..(Len(Returned) - 1) :
               Returned[i].lastmod > Returned[i + 1].lastmod

\* C6: the returned document has min(N, maxNodes) url elements, N the number
\* of indexed ids, and no id is rendered into two of them.
UrlCountIsCapped ==
    lastCall.op = "getXml"
        => /\ Len(Returned) = Min(Cardinality(Indexed), maxNodes)
           /\ Len(ret[1].src) = Len(Returned)
           /\ \A i, j \in 1..Len(ret[1].src) :
                  i # j => ret[1].src[i] # ret[1].src[j]

\* C6 witness: getXml returned while more than maxNodes ids were indexed.
ReturnedOverCap ==
    /\ lastCall.op = "getXml"
    /\ Cardinality(Indexed) > maxNodes

\* C7 as claimed: lastModified is the greatest last-modified instant of all
\* records ever passed to addUrl (0 if none).
LastModifiedIsMaxAdded == lastModified = maxAdded

\* C7 as amended: lastModified is the greater of the instant the latest
\* removeUrl stamped (0 if none) and the last-modified instants of the records
\* passed to addUrl since.
LastModifiedSinceRemoval == lastModified = sinceRemoval

\* C7 witness: after a removeUrl, an addUrl has left lastModified different
\* from the greatest instant ever added.
AddedAfterRemoval ==
    /\ lastCall.op = "addUrl"
    /\ removed # {}
    /\ lastModified # maxAdded
    /\ lastModified # now

\* C8: right after removeUrl, lastModified is the clock reading of that call.
RemoveUrlStampsNow ==
    lastCall.op = "removeUrl" => lastModified = now

\* greatest instant stored for the indexed records (0 if none)
RECURSIVE MaxStoredIn(_)
MaxStoredIn(ntl) ==
    IF ntl = <<>> THEN 0
    ELSE Max(ntl[Len(ntl)].value, MaxStoredIn(SubSeq(ntl, 1, Len(ntl) - 1)))

\* C8 witness: removeUrl for an id that was not indexed has stamped an instant
\* that is not the greatest instant of the records that remain.
StampedNotRecomputed ==
    /\ lastCall.op = "removeUrl"
    /\ ~lastCall.had
    /\ Len(nodeTimeLookup) >= 1
    /\ lastModified # MaxStoredIn(nodeTimeLookup)

\* C9: lastModified is at least every instant addUrl has ever stored in
\* nodeTimeLookup.
LastModifiedCoversStored == lastModified >= maxStored

\* C10: in every state, what addUrl(url, datum) assigns holds for datum.id the
\* node and the instant derived from datum; for an id that is indexed it keeps
\* the keys and their order and every other id's node and instant; and for a
\* record with a timestamp field, addUrl with the same arguments once more
\* assigns the same nodeLookup, nodeTimeLookup and lastModified again.
AddUrlOverwrites ==
    \A datum \in Datums : \A r \in Readings(datum) :
        LET url == UrlOf(datum.id)
            first == addUrlEffect(nodeLookup, nodeTimeLookup, lastModified,
                                  url, datum, r[1], r[2], r[3])
            again == addUrlEffect(first.nodeLookup, first.nodeTimeLookup,
                                  first.lastModified, url, datum, r[3], r[3], r[3])
        IN  /\ Get(first.nodeLookup, datum.id) = createUrlNodeFromDatum(url, datum, r[1])
            /\ Get(first.nodeTimeLookup, datum.id) = getLastModifiedForDatum(datum, r[3])
            /\ HasKey(nodeLookup, datum.id)
                 => /\ [i \in 1..Len(first.nodeLookup) |-> first.nodeLookup[i].key]
                          = [i \in 1..Len(nodeLookup) |-> nodeLookup[i].key]
                    /\ Keys(first.nodeTimeLookup) = Keys(nodeTimeLookup)
                    /\ \A k \in Indexed \ {datum.id} :
                          /\ Get(first.nodeLookup, k) = Get(nodeLookup, k)
                          /\ Get(first.nodeTimeLookup, k) = Get(nodeTimeLookup, k)
            /\ ~ReadsClock(datum)
                 => /\ again.nodeLookup = first.nodeLookup
                    /\ again.nodeTimeLookup = first.nodeTimeLookup
                    /\ again.lastModified = first.lastModified

\* C10 witness: addUrl has just been called for an id that was indexed, next
\* to another indexed id.
ReAddedIndexedId ==
    /\ lastCall.op = "addUrl"
    /\ lastCall.had
    /\ Len(nodeLookup) >= 2

Mutations == {"addUrl", "removeUrl", "reset"}

\* C11: right after reset both lookups are empty, no document is cached and
\* lastModified is still what the calls before it left (the greater of the
\* latest removeUrl's stamp and the instants added since); and a getXml with no
\* addUrl since the latest reset returns a document without url elements.
ResetClears ==
    /\ lastCall.op = "reset"
         => /\ nodeLookup = <<>>
            /\ nodeTimeLookup = <<>>
            /\ siteMapContent = Null
            /\ lastModified = sinceRemoval
    /\ (cleared # "no" /\ lastCall.op = "getXml") => Returned = <<>>

\* C11 witness: getXml has returned after a reset that threw away a cached
\* document with url elements, lastModified being past its initial 0.
ReturnedAfterReset ==
    /\ lastCall.op = "getXml"
    /\ cleared = "cached"
    /\ lastModified > 0

\* C14: with more than maxNodes ids indexed, the returned document lists
\* exactly the first maxNodes ids of nodeLookup's enumeration order, ordered by
\* their instants in nodeTimeLookup, greatest first.
FirstIdsSurvive ==
    (lastCall.op = "getXml" /\ Len(nodeLookup) > maxNodes)
        => /\ Listed(ret) = {nodeLookup[i].key : i \in 1..maxNodes}
           /\ \A i \in 1..(Len(ret[1].src) - 1) :
                  Get(nodeTimeLookup, ret[1].src[i])
                      >= Get(nodeTimeLookup, ret[1].src[i + 1])

\* C14 witness: the returned document leaves out an id whose instant is
\* greater than that of an id it lists.
NewerIdLeftOut ==
    /\ lastCall.op = "getXml"
    /\ Len(nodeLookup) > maxNodes
    /\ \E k \in Indexed \ Listed(ret) : \E j \in Listed(ret) :
          Get(nodeTimeLookup, k) > Get(nodeTimeLookup, j)

\* C16: generateXmlFromNodes has run at most once since the latest mutation,
\* exactly when a document is cached; only getXml runs it, and right after a
\* mutation it has not run.
LazyRendering ==
    /\ renders <= 1
    /\ siteMapContent # Null <=> renders = 1
    /\ lastCall.rendered => lastCall.op = "getXml"
    /\ lastCall.op \in Mutations => renders = 0

\* C16 witness: after a removal and one run of generateXmlFromNodes, a further
\* getXml has returned without running it.
ReturnedWithoutRendering ==
    /\ lastCall.op = "getXml"
    /\ ~lastCall.rendered
    /\ renders = 1
    /\ removed # {}

\* C17: right after addUrl, removeUrl and reset no document is cached, right
\* after getXml one is, and every operation is enabled for every argument.
CacheToggles ==
    /\ lastCall.op \in Mutations => siteMapContent = Null
    /\ lastCall.op = "getXml" => siteMapContent # Null
    /\ \A datum \in ImageDatums : ENABLED addUrlLogged(UrlOf(datum.id), datum)
    /\ \A datum \in TwoRemovals :
          ENABLED (removeUrl(UrlOf(datum.id), datum) /\ lastArgs' = Null)
    /\ ENABLED (getXml /\ lastArgs' = Null)
    /\ ENABLED (reset /\ lastArgs' = Null)

\* C17 witness: a document was cached, reset threw it away, and getXml has
\* generated and cached one again.
CachedAgainAfterReset ==
    /\ lastCall.op = "getXml"
    /\ lastCall.rendered
    /\ cleared = "cached"
    /\ siteMapContent # Null

\* C18: in every state, what removeUrl(url, datum) leaves of the lookups is
\* the lookups without datum.id: every other id keeps its node and instant,
\* and for an id that is not indexed both lookups stay as they are.
RemoveUrlDeletesOnlyItsId ==
    \A datum \in Removals :
        LET left == removeFromLookups(nodeLookup, nodeTimeLookup, datum)
        IN  /\ Keys(left.nodeLookup) = Indexed \ {datum.id}
            /\ Keys(left.nodeTimeLookup) = Keys(nodeTimeLookup) \ {datum.id}
            /\ \A k \in Indexed \ {datum.id} :
                  /\ Get(left.nodeLookup, k) = Get(nodeLookup, k)
                  /\ Get(left.nodeTimeLookup, k) = Get(nodeTimeLookup, k)
            /\ datum.id \notin Indexed
                 => /\ left.nodeLookup = nodeLookup
                    /\ left.nodeTimeLookup = nodeTimeLookup

\* C18 witness: removeUrl has run for an id that was not indexed while two
\* other ids were.
RemovedAbsentId ==
    /\ lastCall.op = "removeUrl"
    /\ ~lastCall.had
    /\ Len(nodeLookup) >= 2

\* C20: for every indexed id the lastmod of its node is the instant stored for
\* it in nodeTimeLookup.
LastmodIsStoredInstant ==
    \A i \in 1..Len(nodeLookup) :
        nodeLookup[i].value.lastmod = Get(nodeTimeLookup, nodeLookup[i].key)

\* the two pairs of lookups map the same ids to the same nodes and instants
SameContents(a, b) ==
    /\ Keys(a.nodeLookup) = Keys(b.nodeLookup)
    /\ Keys(a.nodeTimeLookup) = Keys(b.nodeTimeLookup)
    /\ \A k \in Keys(a.nodeLookup) : Get(a.nodeLookup, k) = Get(b.nodeLookup, k)
    /\ \A k \in Keys(a.nodeTimeLookup) : Get(a.nodeTimeLookup, k) = Get(b.nodeTimeLookup, k)

DistinctStored(ntl) ==
    \A i, j \in 1..Len(ntl) : i # j => ntl[i].value # ntl[j].value

Permutations(n) ==
    {p \in [1..n -> 1..n] : \A i, j \in 1..n : i # j => p[i] # p[j]}

\* a record with updated_at set that addUrl turns into the i-th entry of the
\* lookups, if that entry's lastmod is its stored instant
DatumOf(i) ==
    [id |-> nodeLookup[i].key,
     updated_at |-> Get(nodeTimeLookup, nodeLookup[i].key),
     published_at |-> 0, created_at |-> 0,
     cover_image |-> NoImage, profile_image |-> NoImage, feature_image |-> NoImage]

\* what getXml returns after the calls of addUrls in the order p
RenderedInOrder(p) ==
    LET other == addUrls([i \in 1..Len(nodeLookup) |-> DatumOf(p[i])], now)
    IN  [same |-> SameContents(other, [nodeLookup |-> nodeLookup,
                                       nodeTimeLookup |-> nodeTimeLookup]),
         xml |-> generateXmlFromNodes(other.nodeLookup, other.nodeTimeLookup,
                                      maxNodes).xml]

\* C15 as claimed: whenever getXml has returned, addUrl calls in any other
\* order that leave the same nodes and instants would have made it return the
\* same document.
InsertionOrderIrrelevant ==
    lastCall.op = "getXml"
        => \A p \in Permutations(Len(nodeLookup)) :
               RenderedInOrder(p).same => RenderedInOrder(p).xml = Returned

\* C15, amended: the same, when no more than maxNodes ids are indexed and
\* their stored instants are pairwise distinct.
InsertionOrderIrrelevantWithinCap ==
    (/\ lastCall.op = "getXml"
     /\ Len(nodeLookup) <= maxNodes
     /\ DistinctStored(nodeTimeLookup))
        => \A p \in Permutations(Len(nodeLookup)) :
               RenderedInOrder(p).same => RenderedInOrder(p).xml = Returned

\* C15 witness: getXml has returned two ids, with distinct instants that addUrl
\* calls in the other order leave as well, in the reverse of the order in
\* which they were inserted.
ReturnedInReverseOrder ==
    /\ lastCall.op = "getXml"
    /\ Len(nodeLookup) = 2
    /\ Len(nodeLookup) <= maxNodes
    /\ DistinctStored(nodeTimeLookup)
    /\ RenderedInOrder(<<2, 1>>).same
    /\ ret[1].src = <<nodeLookup[2].key, nodeLookup[1].key>>

\* what removeUrl and then addUrl, and what addUrl alone, leave for a record
\* from the current state, the clock being read as r by addUrl
Updated(datum, r) ==
    LET url == UrlOf(datum.id)
        left == removeFromLookups(nodeLookup, nodeTimeLookup, datum)
    IN  [alone |-> addUrlEffect(nodeLookup, nodeTimeLookup, lastModified,
                                url, datum, r[1], r[2], r[3]),
         readded |-> addUrlEffect(left.nodeLookup, left.nodeTimeLookup, r[1],
                                  url, datum, r[1], r[2], r[3])]

DocumentOf(lookups) ==
    generateXmlFromNodes(lookups.nodeLookup, lookups.nodeTimeLookup, maxNodes).xml

\* C19 as claimed: for an indexed id, removeUrl followed by addUrl leaves the
\* same nodes and instants, and the same document for getXml, as addUrl alone.
RemoveThenAddIsOverwrite ==
    \A datum \in Datums :
        HasKey(nodeLookup, datum.id)
            => \A r \in Readings(datum) :
                   /\ SameContents(Updated(datum, r).readded, Updated(datum, r).alone)
                   /\ DocumentOf(Updated(datum, r).readded)
                          = DocumentOf(Updated(datum, r).alone)

\* C19, amended: for an indexed id, removeUrl followed by addUrl leaves the
\* same nodes and instants as addUrl alone; the document getXml returns is the
\* same when no more than maxNodes ids are indexed and the instants stored
\* after the addUrl are pairwise distinct.
RemoveThenAddKeepsContents ==
    \A datum \in Datums :
        HasKey(nodeLookup, datum.id)
            => \A r \in Readings(datum) :
                   LET u == Updated(datum, r)
                   IN  /\ SameContents(u.readded, u.alone)
                       /\ (/\ Len(u.alone.nodeLookup) <= maxNodes
                           /\ DistinctStored(u.alone.nodeTimeLookup))
                            => DocumentOf(u.readded) = DocumentOf(u.alone)

\* C19 witness: addUrl has run for an id that removeUrl had removed, next to
\* another indexed id, within maxNodes and with distinct stored instants.
ReAddedRemovedId ==
    /\ lastCall.op = "addUrl"
    /\ lastCall.again
    /\ Len(nodeLookup) >= 2
    /\ Len(nodeLookup) <= maxNodes
    /\ DistinctStored(nodeTimeLookup)

\* the first non-empty element of a sequence of fields, `none` if there is none
FirstNonEmpty(fields, none) ==
    LET present == SelectSeq(fields, LAMBDA x : x # none)
    IN  IF present = <<>> THEN none ELSE Head(present)

\* the record of the latest call, if it was addUrl, and the node and the
\* instant the lookups hold for its id
Added == lastArgs[1].datum
AddedNode == Get(nodeLookup, Added.id)
AddedInstant == Get(nodeTimeLookup, Added.id)

\* C12: right after addUrl the record is indexed with its loc and lastmod; its
\* node has an image sub-node exactly when the first non-empty of cover_image,
\* profile_image and feature_image exists and urlFor resolves it, and the
\* sub-node's image_loc is then what urlFor returned.
ImageNodeIffResolved ==
    lastCall.op = "addUrl"
        => LET image == FirstNonEmpty(<<Added.cover_image, Added.profile_image,
                                        Added.feature_image>>, NoImage)
           IN  /\ HasKey(nodeLookup, Added.id)
               /\ HasKey(nodeTimeLookup, Added.id)
               /\ AddedNode.loc = UrlOf(Added.id)
               /\ AddedNode.lastmod = Added.updated_at
               /\ AddedNode.image # Null
                    <=> (image # NoImage /\ urlFor(image) # EmptyUrl)
               /\ AddedNode.image # Null
                    => AddedNode.image[1].image_loc = urlFor(image)

\* C12 witness: addUrl has indexed, without an image sub-node, a record whose
\* cover_image does not resolve and whose profile_image would.
IndexedWithoutImage ==
    /\ lastCall.op = "addUrl"
    /\ Added.cover_image \in Unresolvable
    /\ Added.profile_image = "p.png"
    /\ AddedNode.image = Null
    /\ AddedNode.loc = UrlOf(Added.id)

\* C13: right after addUrl, the lastmod of the record's node and the instant
\* stored for it are the first non-empty of updated_at, published_at and
\* created_at; for a record with none of them they are clock readings no
\* earlier than the clock stood when addUrl was called.
FirstTimestampOrClock ==
    lastCall.op = "addUrl"
        => LET stamp == FirstNonEmpty(<<Added.updated_at, Added.published_at,
                                        Added.created_at>>, 0)
               at == lastArgs[1].at
           IN  IF stamp # 0
               THEN AddedNode.lastmod = stamp /\ AddedInstant = stamp
               ELSE /\ at <= AddedNode.lastmod /\ AddedNode.lastmod <= now
                    /\ at <= AddedInstant /\ AddedInstant <= now

\* C13 witness: addUrl has indexed a record without timestamp fields, the
\* clock having moved on since the call began.
StampedByClock ==
    /\ lastCall.op = "addUrl"
    /\ ReadsClock(Added)
    /\ lastArgs[1].at < AddedNode.lastmod
    /\ AddedNode.lastmod < AddedInstant

====
